---- MODULE Spec2Model ----
(***************************************************************************)
(* Lifecycle handlers of the terrakube provider's team and module          *)
(* resources (internal/provider/team_resource.go, module_resource.go),     *)
(* run by a host against a remote API that stores entities per             *)
(* organization.                                                           *)
(*                                                                         *)
(* Strings are sequences of one-character strings, so that splitting an    *)
(* import identifier on ',' is computed and "" is the empty sequence.      *)
(***************************************************************************)
EXTENDS Integers, Sequences, FiniteSets, TLC

VARIABLES kind, resource, tracked, store, nextId, last, created

vars == <<kind, resource, tracked, store, nextId, last, created>>

----------------------------------------------------------------------------
(* Bounds and input samples *)

\* how many entities the server can be asked to create in one behaviour
MaxCreates == 1

\* longest import identifier tried exhaustively
MaxImportLen == 3

EmptyStr == <<>>

Orgs == {<<"o">>, <<"p">>}

Names == {<<"n">>, <<"m">>}

\* the identifiers the server hands out, in order
IdChars == <<"t", "u", "v", "w">>

ServerId(i) == <<IdChars[i]>>

ImportChars == {"o", "t", ","}

TeamFlags ==
  {"ManageState", "ManageWorkspace", "ManageModule", "ManageProvider",
   "ManageVcs", "ManageTemplate", "ManageJob", "ManageCollection"}

\* The sets of flags a configuration switches on: none, manage_job alone, and
\* three sets that tell any two flags apart (each flag is in a different
\* combination of them) and switch every flag on at least once.
PlanFlagSets ==
  {{}, {"ManageJob"},
   {"ManageState", "ManageModule", "ManageVcs", "ManageCollection"},
   {"ManageWorkspace", "ManageModule", "ManageTemplate", "ManageCollection"},
   {"ManageProvider", "ManageVcs", "ManageTemplate", "ManageCollection"}}

----------------------------------------------------------------------------
(* Host framework values: types.String / types.Bool *)

StringValue(s) == [null |-> FALSE, value |-> s]

StringNull == [null |-> TRUE, value |-> EmptyStr]

ValueString(v) == v.value

BoolValue(b) == [null |-> FALSE, value |-> b]

BoolNull == [null |-> TRUE, value |-> FALSE]

ValueBool(v) == v.value

\* no tracked state for the instance (a null resp.State / req.State)
Absent == [absent |-> TRUE]

\* the all-null object ImportState starts from
TeamNullModel ==
  [ID |-> StringNull, Name |-> StringNull, OrganizationId |-> StringNull,
   ManageState |-> BoolNull, ManageWorkspace |-> BoolNull,
   ManageModule |-> BoolNull, ManageProvider |-> BoolNull,
   ManageVcs |-> BoolNull, ManageTemplate |-> BoolNull,
   ManageJob |-> BoolNull, ManageCollection |-> BoolNull]

ModuleNullModel ==
  [ID |-> StringNull, Name |-> StringNull, OrganizationId |-> StringNull,
   Description |-> StringNull, ProviderName |-> StringNull,
   Source |-> StringNull]

----------------------------------------------------------------------------
(* JSON:API documents and the entity structs of internal/client *)

\* a response or request body that is no JSON:API entity document
\* (empty, an errors document, a truncated read)
BadBody == [valid |-> FALSE]

DocBody(type, id, attributes) ==
  [valid |-> TRUE, type |-> type, id |-> id, attributes |-> attributes]

Attr(attributes, a, zero) ==
  IF a \in DOMAIN attributes THEN attributes[a] ELSE zero

\* jsonapi.MarshalPayload of a client.TeamEntity; fails when the input says so
MarshalTeam(e, fault) ==
  IF fault = "marshal"
  THEN [err |-> TRUE, out |-> BadBody]
  ELSE [err |-> FALSE,
        out |-> DocBody("team", e.ID,
                 [name |-> e.Name,
                  manageState |-> e.ManageState,
                  manageWorkspace |-> e.ManageWorkspace,
                  manageModule |-> e.ManageModule,
                  manageProvider |-> e.ManageProvider,
                  manageVcs |-> e.ManageVcs,
                  manageTemplate |-> e.ManageTemplate,
                  manageJob |-> e.ManageJob,
                  manageCollection |-> e.ManageCollection])]

\* jsonapi.UnmarshalPayload into a fresh client.TeamEntity
UnmarshalTeam(bytes) ==
  IF ~bytes.valid \/ bytes.type # "team"
  THEN [err |-> TRUE]
  ELSE [err |-> FALSE,
        entity |->
          [ID |-> bytes.id,
           Name |-> Attr(bytes.attributes, "name", EmptyStr),
           ManageState |-> Attr(bytes.attributes, "manageState", FALSE),
           ManageWorkspace |-> Attr(bytes.attributes, "manageWorkspace", FALSE),
           ManageModule |-> Attr(bytes.attributes, "manageModule", FALSE),
           ManageProvider |-> Attr(bytes.attributes, "manageProvider", FALSE),
           ManageVcs |-> Attr(bytes.attributes, "manageVcs", FALSE),
           ManageTemplate |-> Attr(bytes.attributes, "manageTemplate", FALSE),
           ManageJob |-> Attr(bytes.attributes, "manageJob", FALSE),
           ManageCollection |-> Attr(bytes.attributes, "manageCollection", FALSE)]]

MarshalModule(e, fault) ==
  IF fault = "marshal"
  THEN [err |-> TRUE, out |-> BadBody]
  ELSE [err |-> FALSE,
        out |-> DocBody("module", e.ID,
                 [name |-> e.Name,
                  description |-> e.Description,
                  provider |-> e.Provider,
                  source |-> e.Source])]

UnmarshalModule(bytes) ==
  IF ~bytes.valid \/ bytes.type # "module"
  THEN [err |-> TRUE]
  ELSE [err |-> FALSE,
        entity |->
          [ID |-> bytes.id,
           Name |-> Attr(bytes.attributes, "name", EmptyStr),
           Description |-> Attr(bytes.attributes, "description", EmptyStr),
           Provider |-> Attr(bytes.attributes, "provider", EmptyStr),
           Source |-> Attr(bytes.attributes, "source", EmptyStr)]]

----------------------------------------------------------------------------
(* The remote API: entities stored per organization under server ids *)

NoEntity == [exists |-> FALSE]

Entity(org, type, attributes) ==
  [exists |-> TRUE, org |-> org, type |-> type, attributes |-> attributes]

Slots == 1..Len(IdChars)

\* the slot holding the entity addressed by /organization/{org}/{type}/{id}
Lookup(st, type, org, id) ==
  {i \in Slots : /\ ServerId(i) = id
                 /\ st[i].exists
                 /\ st[i].org = org
                 /\ st[i].type = type}

Found(st, type, org, id) == Lookup(st, type, org, id) # {}

EntityDoc(st, i) == DocBody(st[i].type, ServerId(i), st[i].attributes)

\* PATCH replaces the attributes the document carries and keeps the others
Merge(old, new) ==
  [a \in DOMAIN old |-> IF a \in DOMAIN new THEN new[a] ELSE old[a]]

\* what a PATCH is answered with: nothing, or a document of the identifier alone
PatchReply(st, i, patchResp) ==
  IF patchResp = "partial"
  THEN DocBody(st[i].type, ServerId(i), [name |-> st[i].attributes.name])
  ELSE BadBody

\* The server's handling of one request. A request it refuses (failure status),
\* one with a body that is no document of the addressed type, or one addressing
\* no entity, changes nothing and is answered with a body that is no entity.
ServerHandle(srv, req, refuse, patchResp) ==
  LET hit == Lookup(srv.store, req.type, req.org, req.id)
      i == CHOOSE j \in hit : TRUE
      unchanged == [store |-> srv.store, nextId |-> srv.nextId, body |-> BadBody]
  IN
  IF refuse THEN unchanged
  ELSE IF req.method = "POST" THEN
    IF req.body.valid /\ req.body.type = req.type /\ srv.nextId \in Slots
    THEN LET st == [srv.store EXCEPT ![srv.nextId] =
                      Entity(req.org, req.type, req.body.attributes)]
         IN [store |-> st, nextId |-> srv.nextId + 1,
             body |-> EntityDoc(st, srv.nextId)]
    ELSE unchanged
  ELSE IF hit = {} THEN unchanged
  ELSE IF req.method = "GET" THEN
    [store |-> srv.store, nextId |-> srv.nextId, body |-> EntityDoc(srv.store, i)]
  ELSE IF req.method = "PATCH" THEN
    IF req.body.valid /\ req.body.type = req.type
    THEN LET st == [srv.store EXCEPT ![i].attributes =
                      Merge(@, req.body.attributes)]
         IN [store |-> st, nextId |-> srv.nextId,
             body |-> PatchReply(st, i, patchResp)]
    ELSE unchanged
  ELSE \* DELETE
    [store |-> [srv.store EXCEPT ![i] = NoEntity], nextId |-> srv.nextId,
     body |-> BadBody]

----------------------------------------------------------------------------
(* net/http and io as the handlers use them *)

NewRequest(method, type, org, id, body) ==
  [method |-> method, type |-> type, org |-> org, id |-> id, body |-> body]

\* r.client.Do: a transport failure delivers nothing and returns an error;
\* otherwise the server handles the request and its reply comes back.
Do(srv, req, transportFails, refuse, patchResp) ==
  IF transportFails
  THEN [err |-> TRUE, store |-> srv.store, nextId |-> srv.nextId,
        body |-> BadBody]
  ELSE LET h == ServerHandle(srv, req, refuse, patchResp)
       IN [err |-> FALSE, store |-> h.store, nextId |-> h.nextId,
           body |-> h.body]

\* io.ReadAll of a response body: the bytes read so far and the error. A failed
\* read returns either a cut-off document or, when the stream breaks after the
\* document's last byte, all of it.
ReadAll(body, readFault) ==
  IF readFault = "truncated" THEN [bytes |-> BadBody, err |-> TRUE]
  ELSE IF readFault = "complete" THEN [bytes |-> body, err |-> TRUE]
  ELSE [bytes |-> body, err |-> FALSE]

----------------------------------------------------------------------------
(* What goes wrong in one handler call: at most one step fails per call.   *)
(* "marshal": serialization fails; "newreq": http.NewRequest fails;        *)
(* "do": the transport fails; "refuse": the server answers with a failure  *)
(* status; "read_truncated"/"read_complete": io.ReadAll fails. The names   *)
(* ending in 2 are the same steps of Update's second (GET) exchange.       *)

ReadFault1(fault) ==
  IF fault = "read_truncated" THEN "truncated"
  ELSE IF fault = "read_complete" THEN "complete" ELSE "none"

ReadFault2(fault) ==
  IF fault = "read2_truncated" THEN "truncated"
  ELSE IF fault = "read2_complete" THEN "complete" ELSE "none"

CreateFaults ==
  {"none", "marshal", "newreq", "do", "refuse", "read_truncated", "read_complete"}

ReadFaults ==
  {"none", "newreq", "do", "refuse", "read_truncated", "read_complete"}

UpdateFaults ==
  CreateFaults \cup
  {"newreq2", "do2", "refuse2", "read2_truncated", "read2_complete"}

DeleteFaults == {"none", "newreq", "do", "refuse"}

\* what can go wrong in an Update together with what the PATCH is answered
\* with: nothing, or, when nothing fails, also a partial document
UpdateInputs ==
  {[fault |-> f, patchResp |-> "empty"] : f \in UpdateFaults} \cup
  {[fault |-> "none", patchResp |-> "partial"]}

\* What a handler call leaves behind: resp.State, the error diagnostics, whether
\* the call panicked, whether it wrote resp.State, the HTTP exchanges it made in
\* order, and the server after them.
Outcome(state, diags, wrote, exchanges, srv) ==
  [state |-> state, diags |-> diags, panicked |-> FALSE, wrote |-> wrote,
   exchanges |-> exchanges, store |-> srv.store, nextId |-> srv.nextId]

\* a nil *http.Request dereferenced by Header.Add: the handler does not return
Panicked(state, exchanges, srv) ==
  [state |-> state, diags |-> {}, panicked |-> TRUE, wrote |-> FALSE,
   exchanges |-> exchanges, store |-> srv.store, nextId |-> srv.nextId]

Exchange(req, d) == [req |-> req, err |-> d.err, body |-> d.body]

After(d) == [store |-> d.store, nextId |-> d.nextId]

----------------------------------------------------------------------------
(* TeamResource *)

\* a request body that leaves manage_collection at its zero value
TeamCreateBodyNoCollection(plan) ==
  [ID |-> EmptyStr,
   Name |-> ValueString(plan.Name),
   ManageState |-> ValueBool(plan.ManageState),
   ManageWorkspace |-> ValueBool(plan.ManageWorkspace),
   ManageModule |-> ValueBool(plan.ManageModule),
   ManageProvider |-> ValueBool(plan.ManageProvider),
   ManageTemplate |-> ValueBool(plan.ManageTemplate),
   ManageVcs |-> ValueBool(plan.ManageVcs),
   ManageJob |-> ValueBool(plan.ManageJob),
   ManageCollection |-> FALSE]

TeamCreateBody(plan) ==
  [ID |-> EmptyStr,
   Name |-> ValueString(plan.Name),
   ManageState |-> ValueBool(plan.ManageState),
   ManageWorkspace |-> ValueBool(plan.ManageWorkspace),
   ManageModule |-> ValueBool(plan.ManageModule),
   ManageProvider |-> ValueBool(plan.ManageProvider),
   ManageTemplate |-> ValueBool(plan.ManageTemplate),
   ManageVcs |-> ValueBool(plan.ManageVcs),
   ManageJob |-> ValueBool(plan.ManageJob),
   ManageCollection |-> ValueBool(plan.ManageCollection)]

TeamCreateState(plan, newTeam) ==
  [plan EXCEPT
     !.ID = StringValue(newTeam.ID),
     !.Name = StringValue(newTeam.Name),
     !.ManageState = BoolValue(newTeam.ManageState),
     !.ManageWorkspace = BoolValue(newTeam.ManageWorkspace),
     !.ManageModule = BoolValue(newTeam.ManageModule),
     !.ManageVcs = BoolValue(newTeam.ManageVcs),
     !.ManageProvider = BoolValue(newTeam.ManageProvider),
     !.ManageTemplate = BoolValue(newTeam.ManageTemplate),
     !.ManageJob = BoolValue(newTeam.ManageJob),
     !.ManageCollection = BoolValue(newTeam.ManageCollection)]

TeamResourceCreate(plan, fault, srv) ==
  LET m == MarshalTeam(TeamCreateBody(plan), fault)
      teamRequest ==
        NewRequest("POST", "team", ValueString(plan.OrganizationId), EmptyStr, m.out)
      d == Do(srv, teamRequest, fault = "do", fault = "refuse", "empty")
      ex == <<Exchange(teamRequest, d)>>
      rd == ReadAll(d.body, ReadFault1(fault))
      un == UnmarshalTeam(rd.bytes)
  IN
  IF m.err THEN Outcome(Absent, {"EncodingError"}, FALSE, <<>>, srv)
  ELSE IF fault = "newreq" THEN Panicked(Absent, <<>>, srv)
  ELSE IF d.err THEN Outcome(Absent, {"TransportError"}, FALSE, ex, After(d))
  ELSE IF un.err THEN Outcome(Absent, {"DecodingError"}, FALSE, ex, After(d))
  ELSE Outcome(TeamCreateState(plan, un.entity), {}, TRUE, ex, After(d))

TeamReadState(state, team) ==
  [state EXCEPT
     !.Name = StringValue(team.Name),
     !.ManageState = BoolValue(team.ManageState),
     !.ManageWorkspace = BoolValue(team.ManageWorkspace),
     !.ManageModule = BoolValue(team.ManageModule),
     !.ManageVcs = BoolValue(team.ManageVcs),
     !.ManageProvider = BoolValue(team.ManageProvider),
     !.ManageTemplate = BoolValue(team.ManageTemplate),
     !.ManageJob = BoolValue(team.ManageJob),
     !.ManageCollection = BoolValue(team.ManageCollection)]

TeamResourceRead(state, fault, srv) ==
  LET teamRequest ==
        NewRequest("GET", "team", ValueString(state.OrganizationId),
                   ValueString(state.ID), BadBody)
      d == Do(srv, teamRequest, fault = "do", fault = "refuse", "empty")
      ex == <<Exchange(teamRequest, d)>>
      rd == ReadAll(d.body, ReadFault1(fault))
      un == UnmarshalTeam(rd.bytes)
  IN
  IF fault = "newreq" THEN Panicked(state, <<>>, srv)
  ELSE IF d.err THEN Outcome(state, {"TransportError"}, FALSE, ex, After(d))
  ELSE IF un.err THEN Outcome(state, {"DecodingError"}, FALSE, ex, After(d))
  ELSE Outcome(TeamReadState(state, un.entity), {}, TRUE, ex, After(d))

TeamUpdateBody(plan, state) ==
  [ManageState |-> ValueBool(plan.ManageState),
   ManageWorkspace |-> ValueBool(plan.ManageWorkspace),
   ManageModule |-> ValueBool(plan.ManageModule),
   ManageProvider |-> ValueBool(plan.ManageProvider),
   ManageTemplate |-> ValueBool(plan.ManageTemplate),
   ManageVcs |-> ValueBool(plan.ManageVcs),
   ManageJob |-> ValueBool(plan.ManageJob),
   ManageCollection |-> ValueBool(plan.ManageCollection),
   ID |-> ValueString(state.ID),
   Name |-> ValueString(state.Name)]

\* decoding the PATCH reply instead of reading the entity back
TeamUpdateDecodedFromPatch(patchBytes, getBytes) == patchBytes

\* the bytes Update decodes: bodyResponse, reassigned from the GET response
TeamUpdateDecoded(patchBytes, getBytes) == getBytes

TeamUpdateState(plan, state, team) ==
  [plan EXCEPT
     !.ID = StringValue(ValueString(state.ID)),
     !.Name = StringValue(team.Name),
     !.ManageState = BoolValue(team.ManageState),
     !.ManageWorkspace = BoolValue(team.ManageWorkspace),
     !.ManageModule = BoolValue(team.ManageModule),
     !.ManageVcs = BoolValue(team.ManageVcs),
     !.ManageProvider = BoolValue(team.ManageProvider),
     !.ManageTemplate = BoolValue(team.ManageTemplate),
     !.ManageJob = BoolValue(team.ManageJob),
     !.ManageCollection = BoolValue(team.ManageCollection)]

TeamResourceUpdate(plan, state, fault, patchResp, srv) ==
  LET m == MarshalTeam(TeamUpdateBody(plan, state), fault)
      patchRequest ==
        NewRequest("PATCH", "team", ValueString(state.OrganizationId),
                   ValueString(state.ID), m.out)
      d1 == Do(srv, patchRequest, fault = "do", fault = "refuse", patchResp)
      ex1 == <<Exchange(patchRequest, d1)>>
      rd1 == ReadAll(d1.body, ReadFault1(fault))
      getRequest ==
        NewRequest("GET", "team", ValueString(state.OrganizationId),
                   ValueString(state.ID), BadBody)
      d2 == Do(After(d1), getRequest, fault = "do2", fault = "refuse2", "empty")
      ex2 == ex1 \o <<Exchange(getRequest, d2)>>
      rd2 == ReadAll(d2.body, ReadFault2(fault))
      readDiag == IF rd2.err THEN {"BodyReadError"} ELSE {}
      un == UnmarshalTeam(TeamUpdateDecoded(rd1.bytes, rd2.bytes))
  IN
  IF m.err THEN Outcome(state, {"EncodingError"}, FALSE, <<>>, srv)
  ELSE IF fault = "newreq" THEN Panicked(state, <<>>, srv)
  ELSE IF d1.err THEN Outcome(state, {"TransportError"}, FALSE, ex1, After(d1))
  ELSE IF fault = "newreq2" THEN Panicked(state, ex1, After(d1))
  ELSE IF d2.err THEN Outcome(state, {"TransportError"}, FALSE, ex2, After(d2))
  ELSE IF un.err
    THEN Outcome(state, readDiag \cup {"DecodingError"}, FALSE, ex2, After(d2))
  ELSE Outcome(TeamUpdateState(plan, state, un.entity), readDiag, TRUE, ex2,
               After(d2))

\* Delete writes no state itself: the host drops the instance when no error
\* diagnostic comes back
TeamResourceDelete(data, fault, srv) ==
  LET reqOrg ==
        NewRequest("DELETE", "team", ValueString(data.OrganizationId),
                   ValueString(data.ID), BadBody)
      d == Do(srv, reqOrg, fault = "do", fault = "refuse", "empty")
      ex == <<Exchange(reqOrg, d)>>
  IN
  IF fault = "newreq" THEN Panicked(data, <<>>, srv)
  ELSE IF d.err THEN Outcome(data, {"TransportError"}, FALSE, ex, After(d))
  ELSE Outcome(Absent, {}, FALSE, ex, After(d))

\* strings.Split(s, ","): the parts between the commas, empty parts included
RECURSIVE Split(_)
Split(s) ==
  LET commas == {k \in 1..Len(s) : s[k] = ","}
      k == CHOOSE c \in commas : \A c2 \in commas : c <= c2
  IN IF commas = {} THEN <<s>>
     ELSE <<SubSeq(s, 1, k - 1)>> \o Split(SubSeq(s, k + 1, Len(s)))

TeamImportValid(idParts) ==
  ~(Len(idParts) # 2 \/ idParts[1] = EmptyStr \/ idParts[2] = EmptyStr)

TeamResourceImportState(id, srv) ==
  LET idParts == Split(id)
  IN IF ~TeamImportValid(idParts)
     THEN Outcome(Absent, {"InvalidImportIdentifier"}, FALSE, <<>>, srv)
     ELSE Outcome([TeamNullModel EXCEPT
                     !.OrganizationId = StringValue(idParts[1]),
                     !.ID = StringValue(idParts[2])],
                  {}, TRUE, <<>>, srv)

----------------------------------------------------------------------------
(* ModuleResource *)

ModuleCreateBody(plan) ==
  [ID |-> EmptyStr,
   Name |-> ValueString(plan.Name),
   Description |-> ValueString(plan.Description),
   Provider |-> ValueString(plan.ProviderName),
   Source |-> ValueString(plan.Source)]

ModuleCreateState(plan, newModule) ==
  [plan EXCEPT
     !.ID = StringValue(newModule.ID),
     !.Name = StringValue(newModule.Name),
     !.Description = StringValue(newModule.Description),
     !.ProviderName = StringValue(newModule.Provider),
     !.Source = StringValue(newModule.Source)]

\* the error of MarshalPayload is dropped: the buffer is sent as it is
ModuleResourceCreate(plan, fault, srv) ==
  LET m == MarshalModule(ModuleCreateBody(plan), fault)
      moduleRequest ==
        NewRequest("POST", "module", ValueString(plan.OrganizationId), EmptyStr,
                   m.out)
      d == Do(srv, moduleRequest, fault = "do", fault = "refuse", "empty")
      ex == <<Exchange(moduleRequest, d)>>
      rd == ReadAll(d.body, ReadFault1(fault))
      un == UnmarshalModule(rd.bytes)
  IN
  IF fault = "newreq" THEN Panicked(Absent, <<>>, srv)
  ELSE IF d.err THEN Outcome(Absent, {"TransportError"}, FALSE, ex, After(d))
  ELSE IF un.err THEN Outcome(Absent, {"DecodingError"}, FALSE, ex, After(d))
  ELSE Outcome(ModuleCreateState(plan, un.entity), {}, TRUE, ex, After(d))

ModuleReadState(state, module) ==
  [state EXCEPT
     !.Name = StringValue(module.Name),
     !.Description = StringValue(module.Description),
     !.ProviderName = StringValue(module.Provider),
     !.Source = StringValue(module.Source)]

ModuleResourceRead(state, fault, srv) ==
  LET moduleRequest ==
        NewRequest("GET", "module", ValueString(state.OrganizationId),
                   ValueString(state.ID), BadBody)
      d == Do(srv, moduleRequest, fault = "do", fault = "refuse", "empty")
      ex == <<Exchange(moduleRequest, d)>>
      rd == ReadAll(d.body, ReadFault1(fault))
      un == UnmarshalModule(rd.bytes)
  IN
  IF fault = "newreq" THEN Panicked(state, <<>>, srv)
  ELSE IF d.err THEN Outcome(state, {"TransportError"}, FALSE, ex, After(d))
  ELSE IF un.err THEN Outcome(state, {"DecodingError"}, FALSE, ex, After(d))
  ELSE Outcome(ModuleReadState(state, un.entity), {}, TRUE, ex, After(d))

ModuleUpdateBody(plan, state) ==
  [ID |-> ValueString(state.ID),
   Name |-> ValueString(plan.Name),
   Description |-> ValueString(plan.Name),
   Provider |-> ValueString(plan.ProviderName),
   Source |-> ValueString(plan.Source)]

ModuleUpdateDecoded(patchBytes, getBytes) == getBytes

ModuleUpdateState(plan, state, module) ==
  [plan EXCEPT
     !.ID = StringValue(ValueString(state.ID)),
     !.Name = StringValue(module.Name),
     !.Description = StringValue(module.Description),
     !.ProviderName = StringValue(module.Provider),
     !.Source = StringValue(module.Source)]

ModuleResourceUpdate(plan, state, fault, patchResp, srv) ==
  LET m == MarshalModule(ModuleUpdateBody(plan, state), fault)
      patchRequest ==
        NewRequest("PATCH", "module", ValueString(state.OrganizationId),
                   ValueString(state.ID), m.out)
      d1 == Do(srv, patchRequest, fault = "do", fault = "refuse", patchResp)
      ex1 == <<Exchange(patchRequest, d1)>>
      rd1 == ReadAll(d1.body, ReadFault1(fault))
      getRequest ==
        NewRequest("GET", "module", ValueString(state.OrganizationId),
                   ValueString(state.ID), BadBody)
      d2 == Do(After(d1), getRequest, fault = "do2", fault = "refuse2", "empty")
      ex2 == ex1 \o <<Exchange(getRequest, d2)>>
      rd2 == ReadAll(d2.body, ReadFault2(fault))
      readDiag == IF rd2.err THEN {"BodyReadError"} ELSE {}
      un == UnmarshalModule(ModuleUpdateDecoded(rd1.bytes, rd2.bytes))
  IN
  IF fault = "newreq" THEN Panicked(state, <<>>, srv)
  ELSE IF d1.err THEN Outcome(state, {"TransportError"}, FALSE, ex1, After(d1))
  ELSE IF fault = "newreq2" THEN Panicked(state, ex1, After(d1))
  ELSE IF d2.err THEN Outcome(state, {"TransportError"}, FALSE, ex2, After(d2))
  ELSE IF un.err
    THEN Outcome(state, readDiag \cup {"DecodingError"}, FALSE, ex2, After(d2))
  ELSE Outcome(ModuleUpdateState(plan, state, un.entity), readDiag, TRUE, ex2,
               After(d2))

ModuleResourceDelete(data, fault, srv) ==
  LET reqOrg ==
        NewRequest("DELETE", "module", ValueString(data.OrganizationId),
                   ValueString(data.ID), BadBody)
      d == Do(srv, reqOrg, fault = "do", fault = "refuse", "empty")
      ex == <<Exchange(reqOrg, d)>>
  IN
  IF fault = "newreq" THEN Panicked(data, <<>>, srv)
  ELSE IF d.err THEN Outcome(data, {"TransportError"}, FALSE, ex, After(d))
  ELSE Outcome(Absent, {}, FALSE, ex, After(d))

\* resource.ImportStatePassthroughID(ctx, path.Root("id"), req, resp)
ModuleResourceImportState(id, srv) ==
  Outcome([ModuleNullModel EXCEPT !.ID = StringValue(id)], {}, TRUE, <<>>, srv)

----------------------------------------------------------------------------
(* Configure: the resource's client, endpoint and token *)

NilClient == [nil |-> TRUE]

\* an *http.Client; InsecureSkipVerify is that of its transport's TLS config
\* (the zero http.Client verifies certificates)
HttpClient(skipVerify) == [nil |-> FALSE, InsecureSkipVerify |-> skipVerify]

\* &TeamResource{} / &ModuleResource{}
Unconfigured ==
  [client |-> NilClient, endpoint |-> EmptyStr, token |-> EmptyStr]

NoProviderData == [type |-> "nil"]

\* provider data that is no *TerrakubeConnectionData
OtherProviderData == [type |-> "other"]

ConnectionData(insecure) ==
  [type |-> "TerrakubeConnectionData", InsecureHttpClient |-> insecure,
   Endpoint |-> <<"e">>, Token |-> <<"k">>]

ProviderData ==
  {NoProviderData, OtherProviderData} \cup
  {ConnectionData(insecure) : insecure \in BOOLEAN}

\* http.DefaultTransport is net/http's own *http.Transport: nothing in the
\* provider replaces it
DefaultTransportIsHttpTransport == TRUE

Configured(r, diags) == [resource |-> r, diags |-> diags, panicked |-> FALSE]

TeamResourceConfigure(r, providerData, isHttpTransport) ==
  IF providerData.type = "nil" THEN Configured(r, {})
  ELSE IF providerData.type # "TerrakubeConnectionData"
    THEN Configured(r, {"UnexpectedConfigurationType"})
  ELSE Configured(
         [client |-> IF providerData.InsecureHttpClient
                     THEN (IF isHttpTransport THEN HttpClient(TRUE)
                           ELSE HttpClient(FALSE))
                     ELSE HttpClient(FALSE),
          endpoint |-> providerData.Endpoint,
          token |-> providerData.Token],
         {})

\* the transport is cloned with an unchecked type assertion and always set to
\* skip verification
ModuleResourceConfigure(r, providerData, isHttpTransport) ==
  IF providerData.type = "nil" THEN Configured(r, {})
  ELSE IF providerData.type # "TerrakubeConnectionData"
    THEN Configured(r, {"UnexpectedConfigurationType"})
  ELSE IF ~isHttpTransport
    THEN [resource |-> r, diags |-> {}, panicked |-> TRUE]
  ELSE Configured(
         [client |-> HttpClient(TRUE),
          endpoint |-> providerData.Endpoint,
          token |-> providerData.Token],
         {})

----------------------------------------------------------------------------
(* The host: which handler it calls when, and with what *)

TeamPlan(org, name, on) ==
  [ID |-> StringNull, Name |-> StringValue(name),
   OrganizationId |-> StringValue(org),
   ManageState |-> BoolValue("ManageState" \in on),
   ManageWorkspace |-> BoolValue("ManageWorkspace" \in on),
   ManageModule |-> BoolValue("ManageModule" \in on),
   ManageProvider |-> BoolValue("ManageProvider" \in on),
   ManageVcs |-> BoolValue("ManageVcs" \in on),
   ManageTemplate |-> BoolValue("ManageTemplate" \in on),
   ManageJob |-> BoolValue("ManageJob" \in on),
   ManageCollection |-> BoolValue("ManageCollection" \in on)]

\* every flag has its schema default applied: a plan never holds a null flag
TeamPlans ==
  {TeamPlan(org, name, on) : org \in Orgs, name \in Names, on \in PlanFlagSets}

\* name is RequiresReplace and id is UseStateForUnknown: an Update's plan
\* carries the state's name and id
TeamUpdatePlans(state) ==
  {[p EXCEPT !.ID = state.ID] : p \in {q \in TeamPlans : q.Name = state.Name}}

ModulePlan(org, name, description, provider, source) ==
  [ID |-> StringNull, Name |-> StringValue(name),
   OrganizationId |-> StringValue(org),
   Description |-> StringValue(description),
   ProviderName |-> StringValue(provider),
   Source |-> StringValue(source)]

\* the description, provider and source a configuration gives, as one choice
ModuleVariants ==
  {[description |-> <<"d">>, provider |-> <<"a">>, source |-> <<"s">>],
   [description |-> <<"e">>, provider |-> <<"g">>, source |-> <<"h">>]}

ModulePlans ==
  {ModulePlan(org, name, v.description, v.provider, v.source) :
     org \in Orgs, name \in Names, v \in ModuleVariants}

RECURSIVE StringsUpTo(_)
StringsUpTo(n) ==
  IF n = 0 THEN {EmptyStr}
  ELSE LET shorter == StringsUpTo(n - 1)
       IN shorter \cup {Append(s, c) : s \in shorter, c \in ImportChars}

\* the import identifiers tried: every short one, and one of three parts
ImportIds == StringsUpTo(MaxImportLen) \cup {<<"o", ",", "t", ",", "o">>}

Srv == [store |-> store, nextId |-> nextId]

\* the host calls one handler at a time and has taken the last call's response
Idle == last.op = "none"

\* Configure has given the resource its client: the host configures the
\* provider before it calls a lifecycle handler
HasClient == ~resource.client.nil

\* the instance has been refreshed since it was imported
Refreshed == tracked # Absent /\ ~tracked.Name.null

NoCall ==
  [op |-> "none", plan |-> Absent, prior |-> Absent, fault |-> "none",
   id |-> EmptyStr, diags |-> {}, panicked |-> FALSE, wrote |-> FALSE,
   exchanges |-> <<>>, data |-> NoProviderData]

Ok(call) == call.diags = {} /\ ~call.panicked

\* the configuration of the last Create that ended without error, for as long
\* as only Reads have followed it
Created(op, plan, r) ==
  IF op = "Create" THEN (IF Ok(r) THEN plan ELSE Absent)
  ELSE IF op = "Read" THEN created
  ELSE Absent

\* the host takes over resp.State and the call is remembered
Return(op, plan, id, fault, r) ==
  /\ created' = Created(op, plan, r)
  /\ tracked' = r.state
  /\ store' = r.store
  /\ nextId' = r.nextId
  /\ last' = [op |-> op, plan |-> plan, prior |-> tracked, fault |-> fault,
              id |-> id, diags |-> r.diags, panicked |-> r.panicked,
              wrote |-> r.wrote, exchanges |-> r.exchanges,
              data |-> NoProviderData]
  /\ UNCHANGED <<kind, resource>>

\* the host hands the provider's connection data to a resource that has none
ConfigureReturn(providerData, c) ==
  /\ resource' = c.resource
  /\ last' = [NoCall EXCEPT !.op = "Configure", !.data = providerData,
                            !.diags = c.diags, !.panicked = c.panicked]
  /\ UNCHANGED <<kind, tracked, store, nextId, created>>

TeamConfigure ==
  /\ Idle /\ kind = "team" /\ resource = Unconfigured
  /\ \E providerData \in ProviderData :
       ConfigureReturn(providerData,
         TeamResourceConfigure(resource, providerData,
                               DefaultTransportIsHttpTransport))

ModuleConfigure ==
  /\ Idle /\ kind = "module" /\ resource = Unconfigured
  /\ \E providerData \in ProviderData :
       ConfigureReturn(providerData,
         ModuleResourceConfigure(resource, providerData,
                                 DefaultTransportIsHttpTransport))

TeamCreate ==
  /\ Idle /\ HasClient /\ kind = "team" /\ tracked = Absent /\ nextId <= MaxCreates
  /\ \E plan \in TeamPlans, fault \in CreateFaults :
       Return("Create", plan, EmptyStr, fault,
              TeamResourceCreate(plan, fault, Srv))

TeamRead ==
  /\ Idle /\ HasClient /\ kind = "team" /\ tracked # Absent
  /\ \E fault \in ReadFaults :
       Return("Read", Absent, EmptyStr, fault,
              TeamResourceRead(tracked, fault, Srv))

TeamUpdate ==
  /\ Idle /\ HasClient /\ kind = "team" /\ Refreshed
  /\ \E plan \in TeamUpdatePlans(tracked), in \in UpdateInputs :
       Return("Update", plan, EmptyStr, in.fault,
              TeamResourceUpdate(plan, tracked, in.fault, in.patchResp, Srv))

TeamDelete ==
  /\ Idle /\ HasClient /\ kind = "team" /\ Refreshed
  /\ \E fault \in DeleteFaults :
       Return("Delete", Absent, EmptyStr, fault,
              TeamResourceDelete(tracked, fault, Srv))

TeamImportState ==
  /\ Idle /\ HasClient /\ kind = "team" /\ tracked = Absent
  /\ \E id \in ImportIds :
       Return("ImportState", Absent, id, "none",
              TeamResourceImportState(id, Srv))

ModuleCreate ==
  /\ Idle /\ HasClient /\ kind = "module" /\ tracked = Absent /\ nextId <= MaxCreates
  /\ \E plan \in ModulePlans, fault \in CreateFaults :
       Return("Create", plan, EmptyStr, fault,
              ModuleResourceCreate(plan, fault, Srv))

ModuleRead ==
  /\ Idle /\ HasClient /\ kind = "module" /\ tracked # Absent
  /\ \E fault \in ReadFaults :
       Return("Read", Absent, EmptyStr, fault,
              ModuleResourceRead(tracked, fault, Srv))

ModuleUpdate ==
  /\ Idle /\ HasClient /\ kind = "module" /\ Refreshed
  /\ \E plan \in ModulePlans, in \in UpdateInputs :
       Return("Update", plan, EmptyStr, in.fault,
              ModuleResourceUpdate(plan, tracked, in.fault, in.patchResp, Srv))

ModuleDelete ==
  /\ Idle /\ HasClient /\ kind = "module" /\ Refreshed
  /\ \E fault \in DeleteFaults :
       Return("Delete", Absent, EmptyStr, fault,
              ModuleResourceDelete(tracked, fault, Srv))

ModuleImportState ==
  /\ Idle /\ HasClient /\ kind = "module" /\ tracked = Absent
  /\ \E id \in ImportIds :
       Return("ImportState", Absent, id, "none",
              ModuleResourceImportState(id, Srv))

\* the host has taken the response of the call: its state is already tracked,
\* its diagnostics are reported, and the next call can be made
HostTakesResponse ==
  /\ ~Idle
  /\ last' = NoCall
  /\ UNCHANGED <<kind, resource, tracked, store, nextId, created>>

\* someone else removes an entity from the server, between two calls
ExternalDelete ==
  /\ Idle
  /\ \E i \in Slots :
       /\ store[i].exists
       /\ store' = [store EXCEPT ![i] = NoEntity]
  /\ created' = Absent
  /\ UNCHANGED <<kind, resource, tracked, nextId, last>>

Init ==
  /\ kind \in {"team", "module"}
  /\ resource = Unconfigured
  /\ tracked = Absent
  /\ store = [i \in Slots |-> NoEntity]
  /\ nextId = 1
  /\ last = NoCall
  /\ created = Absent

Next ==
  \/ TeamConfigure \/ ModuleConfigure
  \/ TeamCreate \/ TeamRead \/ TeamUpdate \/ TeamDelete \/ TeamImportState
  \/ ModuleCreate \/ ModuleRead \/ ModuleUpdate \/ ModuleDelete
  \/ ModuleImportState
  \/ HostTakesResponse
  \/ ExternalDelete

Spec == Init /\ [][Next]_vars

----------------------------------------------------------------------------
(* Properties *)

Lifecycle == {"Create", "Read", "Update"}

Sent(n) == Len(last.exchanges) >= n

\* a step of the last call failed whose result the call depends on: encoding,
\* request construction, transport, the read of a body that is decoded, or
\* decoding (the read of the PATCH reply is only logged)
StepFailed ==
  \/ last.fault \in {"marshal", "newreq", "do", "newreq2", "do2",
                     "read2_truncated", "read2_complete"}
  \/ last.op \in {"Create", "Read"}
       /\ last.fault \in {"read_truncated", "read_complete"}
  \/ "DecodingError" \in last.diags

\* C1: when a step of a Create, Read or Update fails, the call ends with an
\* error diagnostic and without writing state: tracked state is what it was.
C1_FailedCallLeavesState ==
  (last.op \in Lifecycle /\ StepFailed) =>
    /\ last.diags # {}
    /\ ~last.wrote
    /\ tracked = last.prior

SameTarget(a, b) == a.type = b.type /\ a.org = b.org /\ a.id = b.id

\* the attributes tracked state takes from the server, read off a document
FromDocument(doc) ==
  IF kind = "team"
  THEN /\ tracked.Name = StringValue(Attr(doc.attributes, "name", EmptyStr))
       /\ tracked.ManageState = BoolValue(Attr(doc.attributes, "manageState", FALSE))
       /\ tracked.ManageWorkspace = BoolValue(Attr(doc.attributes, "manageWorkspace", FALSE))
       /\ tracked.ManageModule = BoolValue(Attr(doc.attributes, "manageModule", FALSE))
       /\ tracked.ManageProvider = BoolValue(Attr(doc.attributes, "manageProvider", FALSE))
       /\ tracked.ManageVcs = BoolValue(Attr(doc.attributes, "manageVcs", FALSE))
       /\ tracked.ManageTemplate = BoolValue(Attr(doc.attributes, "manageTemplate", FALSE))
       /\ tracked.ManageJob = BoolValue(Attr(doc.attributes, "manageJob", FALSE))
       /\ tracked.ManageCollection = BoolValue(Attr(doc.attributes, "manageCollection", FALSE))
  ELSE /\ tracked.Name = StringValue(Attr(doc.attributes, "name", EmptyStr))
       /\ tracked.Description = StringValue(Attr(doc.attributes, "description", EmptyStr))
       /\ tracked.ProviderName = StringValue(Attr(doc.attributes, "provider", EmptyStr))
       /\ tracked.Source = StringValue(Attr(doc.attributes, "source", EmptyStr))

\* C2: an Update sends its PATCH first and then at most one GET, for the same
\* organization and id; the state it writes holds the attributes of the GET
\* response's document; a PATCH that fails in transport is followed by no GET
\* and no state write.
C2_UpdateReadsBack ==
  last.op = "Update" =>
    /\ Len(last.exchanges) <= 2
    /\ Sent(1) => last.exchanges[1].req.method = "PATCH"
    /\ Sent(2) => /\ last.exchanges[2].req.method = "GET"
                  /\ SameTarget(last.exchanges[1].req, last.exchanges[2].req)
    /\ last.wrote => /\ Sent(2)
                     /\ ~last.exchanges[2].err
                     /\ last.exchanges[2].body.valid
                     /\ FromDocument(last.exchanges[2].body)
    /\ (Sent(1) /\ last.exchanges[1].err) => (~Sent(2) /\ ~last.wrote)

\* an Update wrote state although its PATCH was answered with a document that
\* lacks what the GET returned
C2_Witness ==
  /\ last.op = "Update" /\ last.wrote /\ kind = "team"
  /\ last.exchanges[1].body.valid
  /\ last.exchanges[1].body.attributes # last.exchanges[2].body.attributes
  /\ tracked.ManageJob = BoolValue(TRUE)

\* the Read of an instance that had been refreshed before: its GET went out,
\* nothing failed on the way, and the server holds no entity under the tracked
\* organization and id
AnsweredNotFound ==
  /\ last.op = "Read" /\ last.fault = "none" /\ Sent(1)
  /\ ~last.prior.Name.null
  /\ ~Found(store, kind, ValueString(last.prior.OrganizationId),
            ValueString(last.prior.ID))

\* C3: a Read answered with not-found drops the instance from tracked state
\* and reports no error.
C3_ReadNotFoundDropsInstance ==
  AnsweredNotFound => (tracked = Absent /\ last.diags = {})

\* the string is <organizationId>,<id>: one comma, with something on both sides
TwoParts(s) ==
  \E k \in 2..(Len(s) - 1) :
    /\ s[k] = ","
    /\ \A j \in 1..Len(s) : s[j] = "," => j = k

\* C4: ImportState of a string that is not two non-empty comma-separated parts
\* fails with InvalidImportIdentifier and writes nothing.
C4_ImportRejectsMalformed ==
  (last.op = "ImportState" /\ ~TwoParts(last.id)) =>
    /\ "InvalidImportIdentifier" \in last.diags
    /\ ~last.wrote
    /\ tracked = Absent

NullModel == IF kind = "team" THEN TeamNullModel ELSE ModuleNullModel

\* C5: ImportState of "<organizationId>,<id>" seeds tracked state with
\* organization_id and id set to the two parts and nothing else set.
C5_ImportSeedsIdentifiers ==
  (last.op = "ImportState" /\ TwoParts(last.id)) =>
    \E k \in 1..Len(last.id) :
      /\ last.id[k] = ","
      /\ tracked =
           [NullModel EXCEPT
              !.OrganizationId = StringValue(SubSeq(last.id, 1, k - 1)),
              !.ID = StringValue(SubSeq(last.id, k + 1, Len(last.id)))]

PatchSent ==
  /\ last.op = "Update" /\ Sent(1)
  /\ last.exchanges[1].req.method = "PATCH"
  /\ last.exchanges[1].req.body.valid

PatchAttributes == last.exchanges[1].req.body.attributes

\* C6: the name in an Update's PATCH body is the name of the prior state.
C6_PatchKeepsName ==
  PatchSent => PatchAttributes.name = ValueString(last.prior.Name)

\* C7: an Update's PATCH body carries every mutable attribute with the plan's
\* value of that attribute.
C7_PatchCarriesPlan ==
  PatchSent =>
    IF kind = "team"
    THEN /\ PatchAttributes.manageState = ValueBool(last.plan.ManageState)
         /\ PatchAttributes.manageWorkspace = ValueBool(last.plan.ManageWorkspace)
         /\ PatchAttributes.manageModule = ValueBool(last.plan.ManageModule)
         /\ PatchAttributes.manageProvider = ValueBool(last.plan.ManageProvider)
         /\ PatchAttributes.manageVcs = ValueBool(last.plan.ManageVcs)
         /\ PatchAttributes.manageTemplate = ValueBool(last.plan.ManageTemplate)
         /\ PatchAttributes.manageJob = ValueBool(last.plan.ManageJob)
         /\ PatchAttributes.manageCollection = ValueBool(last.plan.ManageCollection)
    ELSE /\ PatchAttributes.description = ValueString(last.plan.Description)
         /\ PatchAttributes.provider = ValueString(last.plan.ProviderName)
         /\ PatchAttributes.source = ValueString(last.plan.Source)

\* C8: after a Create, Read or Update that ended without error, tracked state
\* equals the server's entity under the tracked organization_id and id, in the
\* identifier and every attribute.
C8_TrackedEqualsServer ==
  (last.op \in Lifecycle /\ Ok(last)) =>
    \E i \in Lookup(store, kind, ValueString(tracked.OrganizationId),
                    ValueString(tracked.ID)) :
      /\ tracked.ID = StringValue(ServerId(i))
      /\ FromDocument(EntityDoc(store, i))

\* C9: a Create of a configuration followed by a Read, both ending without
\* error, leaves tracked state equal to the configuration in everything but
\* the identifier, which is one the server assigned.
C9_ReadOfCreate ==
  (last.op = "Read" /\ Ok(last) /\ created # Absent) =>
    /\ tracked = [created EXCEPT !.ID = tracked.ID]
    /\ ~tracked.ID.null
    /\ \E i \in Slots : ValueString(tracked.ID) = ServerId(i)

\* a team created with manage_job alone switched on has been read back
C9_Witness ==
  /\ last.op = "Read" /\ Ok(last) /\ created # Absent /\ kind = "team"
  /\ last.wrote
  /\ tracked.ManageJob = BoolValue(TRUE)
  /\ tracked.ManageState = BoolValue(FALSE)
  /\ tracked.ManageWorkspace = BoolValue(FALSE)
  /\ tracked.ManageModule = BoolValue(FALSE)
  /\ tracked.ManageProvider = BoolValue(FALSE)
  /\ tracked.ManageVcs = BoolValue(FALSE)
  /\ tracked.ManageTemplate = BoolValue(FALSE)
  /\ tracked.ManageCollection = BoolValue(FALSE)
  /\ tracked.ID = StringValue(ServerId(1))

\* C10: when serialization fails in Create or Update, the call ends with an
\* EncodingError diagnostic, sends no request and writes no state.
C10_EncodingFailureStopsCall ==
  (last.op \in {"Create", "Update"} /\ last.fault = "marshal") =>
    /\ "EncodingError" \in last.diags
    /\ last.exchanges = <<>>
    /\ ~last.wrote

\* the read of a response body that the call goes on to decode has failed
DecodedBodyReadFailed ==
  \/ last.op \in {"Create", "Read"}
       /\ last.fault \in {"read_truncated", "read_complete"}
  \/ last.op = "Update"
       /\ last.fault \in {"read2_truncated", "read2_complete"}

\* C11: when the read of a body that is to be decoded fails in Create, Read or
\* Update, the call ends with an error diagnostic, decodes nothing and writes
\* no state; a failed read of the PATCH reply, which is only logged, lets
\* Update go on to its GET.
C11_UnreadBodyIsNotDecoded ==
  /\ DecodedBodyReadFailed =>
       /\ ~Ok(last)
       /\ "DecodingError" \notin last.diags
       /\ ~last.wrote
  /\ (last.op = "Update" /\ last.fault \in {"read_truncated", "read_complete"})
       => Sent(2)

\* an entity with the identifier the instance tracked is on the server
StillOnServer(data) ==
  \E i \in Slots : store[i].exists /\ ServerId(i) = ValueString(data.ID)

\* C12: Delete sends at most one DELETE; when it returns without an error
\* diagnostic the entity is gone from the server, and a DELETE the server
\* answers with a failure status ends with an error diagnostic and the
\* instance still tracked.
C12_DeleteRemovesEntity ==
  last.op = "Delete" =>
    /\ Len(last.exchanges) <= 1
    /\ Ok(last) => ~StillOnServer(last.prior)
    /\ last.fault = "refuse" => (~Ok(last) /\ tracked = last.prior)

\* the request addresses the entity that tracked state names
AddressesTracked(req) ==
  /\ req.type = kind
  /\ req.org = ValueString(tracked.OrganizationId)
  /\ req.id = ValueString(tracked.ID)

\* C13: after an Update that ends without error, the organization and
\* identifier in tracked state are those the PATCH and the read-back GET
\* addressed, and they name an entity on the server.
C13_UpdateKeepsAddress ==
  (last.op = "Update" /\ Ok(last) /\ last.wrote) =>
    /\ Sent(2)
    /\ AddressesTracked(last.exchanges[1].req)
    /\ AddressesTracked(last.exchanges[2].req)
    /\ Found(store, kind, ValueString(tracked.OrganizationId),
             ValueString(tracked.ID))

\* the server took the POST of the last call and answered with the new entity
PostAccepted ==
  /\ Sent(1)
  /\ last.exchanges[1].req.method = "POST"
  /\ ~last.exchanges[1].err
  /\ last.exchanges[1].body.valid

\* C14: a Create that ends with an error diagnostic and no state write has
\* created no entity on the server.
C14_FailedCreateCreatesNothing ==
  (last.op = "Create" /\ ~Ok(last) /\ ~last.wrote) => ~PostAccepted

\* C15: after a Configure that succeeds on connection data, the client skips
\* certificate verification exactly when the data's insecure flag is set and
\* endpoint and token are the data's; on provider data of another type
\* Configure reports UnexpectedConfigurationType and sets nothing.
C15_ConfigureFollowsContext ==
  last.op = "Configure" =>
    /\ (last.data.type = "TerrakubeConnectionData" /\ Ok(last)) =>
         /\ HasClient
         /\ resource.client.InsecureSkipVerify = last.data.InsecureHttpClient
         /\ resource.endpoint = last.data.Endpoint
         /\ resource.token = last.data.Token
    /\ last.data.type = "other" =>
         /\ "UnexpectedConfigurationType" \in last.diags
         /\ resource = Unconfigured

====
